---- MODULE Spec2Model ----
(***************************************************************************)
(* lb-mapper: the matching pipeline of src/lb_mapper.                      *)
(*                                                                         *)
(* process_listens (mapper.py) walks a fetched batch of listens; for each  *)
(* unlinked listen _try_map runs the ordered searches of mb_search.py and  *)
(* submits the accepted match through ListenBrainzClient.submit_mapping.   *)
(*                                                                         *)
(* Representation.                                                         *)
(*   - An artist name or artist credit is a sequence of code points.       *)
(*   - A track or release name is a sequence of tokens: "w" / "r" a title  *)
(*     word, "sp" white space, and one token for each kind of trailing     *)
(*     annotation that a strip pattern of mb_search.py removes.            *)
(*   - Python's None is NoneVal == <<>>, a value v is Some(v) == <<v>>.    *)
(*   - calls is the trace of the calls (search_recordings,                 *)
(*     translate_artist, submit_mapping) made for the listen of the        *)
(*     current iteration of the for loop, in the order they were made;     *)
(*     each entry carries the loop position at which it was made.          *)
(***************************************************************************)
EXTENDS Integers, Sequences, FiniteSets, TLC

VARIABLES
    listens,            \* process_listens: the fetched batch
    dry_run,            \* process_listens: the dry_run flag
    results,            \* process_listens: list of MappingResult
    idx,                \* process_listens: position of the for loop (1-based)
    pc,                 \* where the current listen stands inside _try_map
    translated_artist,  \* _try_map local
    match,              \* _try_map local
    search_results,     \* find_*: the list search_recordings returned, until
                        \* the caller has looked through it
    rv,                 \* find_match_by_track_release: release variant index
    tv,                 \* find_match_by_*: track variant index
    cache,              \* Translator._cache
    calls,              \* trace of the calls of the current iteration
    now,                \* time.monotonic(), in ticks
    _last_request_time, \* mb_search.py: the module-level time stamp
    gate_pc,            \* where the current _rate_limited_get call stands
    sent_at,            \* the times at which _client.get sent a request
    tpc,                \* where the current Translator call stands
    artist_name,        \* translate_artist: the name of the call
    _worker_task,       \* Translator._worker_task
    _request_queue,     \* Translator._request_queue
    future,             \* _run_translate: the future of the call
    cache_file,         \* CACHE_FILE on disk
    returned,           \* what translate_artist has returned so far
    last_call,          \* the last translate_artist call that has returned or raised
    given,              \* normalize_track_name: the name given
    normal_forms,       \* the results of applying it repeatedly
    answers,            \* _request: the statuses the service answers with
    response,           \* _request: how the call ended
    search_args,        \* search_recordings: artist, recording, release
    sent_query,         \* search_recordings: the terms of the query sent
    search_return,      \* search_recordings: the list returned
    history,            \* the user's listens at the service, newest first
    service,            \* how the service fills a page
    count,              \* fetch_listens: count; None for iter_listens alone
    max_ts,             \* iter_listens: max_ts
    seen,               \* iter_listens: seen
    yielded,            \* iter_listens: the listens yielded so far
    fetched,            \* fetch_listens: result
    lpc,                \* where iter_listens stands
    page,               \* iter_listens: listens_data
    pos,                \* iter_listens: position of the for loop in the page
    added,              \* iter_listens: added
    items,              \* search_batch: the items read
    output,             \* search_batch: output
    batch_calls,        \* search_batch: the search_recording calls made
    mappings,           \* execute: data['mappings']
    deletions,          \* execute: data['deletions']
    exec_log,           \* execute: the items attempted, in order
    mapped_ok,          \* execute: mapped_ok
    deleted_ok,         \* execute: deleted_ok
    epc                 \* execute: the loop main is in

mapper_vars == <<listens, dry_run, results, idx, pc, translated_artist, match,
                 search_results, rv, tv, calls>>

gate_vars == <<now, _last_request_time, gate_pc, sent_at>>

translator_vars == <<tpc, artist_name, _worker_task, _request_queue, future,
                     cache_file, returned, last_call>>

normalize_vars == <<given, normal_forms>>

request_vars == <<answers, response>>

search_vars == <<search_args, sent_query, search_return>>

listens_vars == <<history, service, count, max_ts, seen, yielded, fetched, lpc,
                  page, pos, added>>

batch_vars == <<items, output, batch_calls>>

exec_vars == <<mappings, deletions, exec_log, mapped_ok, deleted_ok, epc>>

\* The variables of the client, of the query builder and of the commands
tool_vars == <<request_vars, search_vars, listens_vars,
               batch_vars, exec_vars>>

vars == <<mapper_vars, cache, gate_vars, translator_vars, normalize_vars,
          tool_vars>>

-----------------------------------------------------------------------------
(* Bounds of the model *)

MaxListens == 2
MaxResults == 2

(* Program constants *)

AUTO_ACCEPT_SCORE == 90
_MAX_RETRIES == 3
CJK_FIRST == 12288
CJK_LAST == 40959

-----------------------------------------------------------------------------
(* Values *)

NoneVal == <<>>
Some(v) == <<v>>

ArtistA == <<65>>
ArtistCJK == <<21021, 38899>>
ArtistHangul == <<50500>>

Translations == {<<>>, ArtistA}

Listen(at, msid, artist, track, release, mapping) ==
    [listened_at |-> at, recording_msid |-> msid, artist_name |-> artist,
     track_name |-> track, release_name |-> release, mbid_mapping |-> mapping]

ListenPool ==
    { Listen(10, "msid1", ArtistA, <<"w">>, <<>>, Some("mapped")),
      Listen(20, "msid2", ArtistCJK, <<"w", "edit">>, <<"r", "single">>, NoneVal),
      Listen(30, "msid3", ArtistA, <<"edit">>, <<>>, NoneVal),
      Listen(40, "msid4", <<>>, <<"w">>, <<"r">>, NoneVal),
      Listen(50, "msid5", ArtistHangul, <<"w">>, <<>>, NoneVal) }

\* Mutant of is_linked: the link is not looked at
is_linked_never(listen) == FALSE

is_linked(listen) == listen.mbid_mapping # NoneVal

RecordingMatch(mbid, credit, score) ==
    [mbid |-> mbid, artist_credit |-> credit, score |-> score]

Recordings ==
    { RecordingMatch("mb1", <<97>>, 89),
      RecordingMatch("mb2", <<97>>, 90),
      RecordingMatch("mb3", <<66>>, 90),
      RecordingMatch("mb4", <<66, 97>>, 91) }

SeqsUpTo(S, n) == UNION { [1..k -> S] : k \in 0..n }

\* The lists a search may return: no recording twice in one list
ResultLists ==
    { rs \in SeqsUpTo(Recordings, MaxResults) :
        \A i, j \in 1..Len(rs) : rs[i] = rs[j] => i = j }

MappingResult(listen, status, m, translated, error) ==
    [listen |-> listen, status |-> status, match |-> m,
     translated_artist |-> translated, error |-> error]

-----------------------------------------------------------------------------
(* Pure functions *)

Lower(c) == IF c >= 65 /\ c <= 90 THEN c + 32 ELSE c

lower(s) == [i \in 1..Len(s) |-> Lower(s[i])]

Contains(sub, s) ==
    \E i \in 0..(Len(s) - Len(sub)) : SubSeq(s, i + 1, i + Len(sub)) = sub

contains_cjk(text) ==
    \E i \in 1..Len(text) : text[i] >= CJK_FIRST /\ text[i] <= CJK_LAST

RECURSIVE rstrip(_)
rstrip(name) ==
    IF name # <<>> /\ name[Len(name)] = "sp"
    THEN rstrip(SubSeq(name, 1, Len(name) - 1))
    ELSE name

RECURSIVE lstrip(_)
lstrip(name) ==
    IF name # <<>> /\ name[1] = "sp" THEN lstrip(Tail(name)) ELSE name

strip(name) == lstrip(rstrip(name))

\* One pattern.sub('', result): the pattern is anchored at the end of the
\* string and takes the white space on both sides of its annotation.
Sub(name, annotation) ==
    LET core == rstrip(name)
    IN  IF core # <<>> /\ core[Len(core)] = annotation
        THEN rstrip(SubSeq(core, 1, Len(core) - 1))
        ELSE name

\* The strip patterns, in the order of the list, by the annotation each removes
_STRIP_PATTERNS == <<"edit", "key", "feat">>

_RELEASE_STRIP_PATTERNS == <<"single", "edition">>

RECURSIVE SubAll(_, _)
SubAll(name, patterns) ==
    IF patterns = <<>> THEN name
    ELSE SubAll(Sub(name, Head(patterns)), Tail(patterns))

normalize_track_name(name) == strip(SubAll(name, _STRIP_PATTERNS))

normalize_release_name(name) == strip(SubAll(name, _RELEASE_STRIP_PATTERNS))

_track_name_variants(recording) ==
    LET normalized == normalize_track_name(recording)
    IN  IF normalized # recording /\ normalized # <<>>
        THEN <<recording, normalized>>
        ELSE <<recording>>

_release_name_variants(release) ==
    LET normalized == normalize_release_name(release)
    IN  IF normalized # release /\ normalized # <<>>
        THEN <<release, normalized>>
        ELSE <<release>>

-----------------------------------------------------------------------------
(* mb_search.py: selection of a candidate from one result list *)

First(rs) == IF rs = <<>> THEN NoneVal ELSE Some(rs[1])

\* Mutants of BestOf: the threshold filter forgotten; the last hit taken
BestOf_unfiltered(rs, min_score) == First(rs)

BestOf_last(rs, min_score) ==
    LET above == SelectSeq(rs, LAMBDA r : r.score >= min_score)
    IN  IF above = <<>> THEN NoneVal ELSE Some(above[Len(above)])

\* find_best_match: above_threshold[0] if above_threshold
BestOf(rs, min_score) ==
    First(SelectSeq(rs, LAMBDA r : r.score >= min_score))

\* Mutant of ByTrackRelease: the artist test forgotten
ByTrackRelease_first(rs, expected_artist) == First(rs)

\* find_match_by_track_release: first r with expected_lower in credit.lower()
ByTrackRelease(rs, expected_artist) ==
    First(SelectSeq(rs, LAMBDA r :
        Contains(lower(expected_artist), lower(r.artist_credit))))

\* Mutant of ByTrackOnly: the artist test forgotten
ByTrackOnly_score_only(rs, expected_artist, min_score) ==
    First(SelectSeq(rs, LAMBDA r : r.score >= min_score))

\* find_match_by_track_only: first r passing the score and the artist test
ByTrackOnly(rs, expected_artist, min_score) ==
    First(SelectSeq(rs, LAMBDA r :
        /\ r.score >= min_score
        /\ Contains(lower(expected_artist), lower(r.artist_credit))))

\* search_recordings: query_parts holds a term for each truthy argument;
\* an argument that was not passed is None
Truthy(arg) == arg # NoneVal /\ arg[1] # <<>>

query_parts(artist, recording, release) ==
    (IF Truthy(artist) THEN {"artist"} ELSE {})
    \cup (IF Truthy(recording) THEN {"recording"} ELSE {})
    \cup (IF Truthy(release) THEN {"release"} ELSE {})

-----------------------------------------------------------------------------
(* lb_client.py: _request, over the statuses the service answers with.    *)
(* Status 0 stands for a transport error raised by the HTTP client.       *)

Statuses == {0, 200, 429, 500}

RECURSIVE _request(_, _, _)
_request(responses, retries_left, attempts) ==
    LET status == Head(responses)
    IN  IF status = 0
        THEN [attempts |-> attempts + 1, status |-> status, raised |-> TRUE]
        ELSE IF status # 429 \/ retries_left - 1 <= 0
        THEN [attempts |-> attempts + 1, status |-> status,
              raised |-> ~(status >= 200 /\ status <= 299)]
        ELSE _request(Tail(responses), retries_left - 1, attempts + 1)

\* mb_search.py, _rate_limited_get: _client.get raises on a transport error
\* and resp.raise_for_status() on a status outside 2xx; nothing catches either
_rate_limited_get(status) ==
    [status |-> status,
     raised |-> status = 0 \/ ~(status >= 200 /\ status <= 299)]

\* Mutant of submit_mapping: raise_for_status forgotten
submit_mapping_unchecked(responses) ==
    [_request(responses, _MAX_RETRIES, 0) EXCEPT !.raised = FALSE]

submit_mapping(responses) == _request(responses, _MAX_RETRIES, 0)

-----------------------------------------------------------------------------------------------------------------------------------------------------
(* The trace of calls *)

NoCall ==
    [listen |-> 0, op |-> "", strategy |-> "", artist |-> NoneVal,
     recording |-> NoneVal, release |-> NoneVal, sent |-> FALSE,
     raised |-> FALSE, msid |-> "", mbid |-> "", status |-> 0,
     value |-> NoneVal]

\* search_recordings(artist, recording, release); sent: a request was sent
SearchCall(i, strategy, artist, recording, release, sent, raised) ==
    [NoCall EXCEPT !.listen = i, !.op = "search", !.strategy = strategy,
                   !.artist = artist, !.recording = recording,
                   !.release = release, !.sent = sent, !.raised = raised]

\* translate_artist(name); sent: the external translator was called
TranslateCall(i, name, sent, raised, value) ==
    [NoCall EXCEPT !.listen = i, !.op = "translate", !.strategy = "translated",
                   !.artist = Some(name), !.sent = sent, !.raised = raised,
                   !.value = value]

\* submit_mapping(recording_msid, recording_mbid); status: the last answer
SubmitCall(i, msid, mbid, status, raised) ==
    [NoCall EXCEPT !.listen = i, !.op = "submit", !.strategy = "submit",
                   !.sent = TRUE, !.raised = raised, !.msid = msid,
                   !.mbid = mbid, !.status = status]

-----------------------------------------------------------------------------
(* mapper.py: process_listens and _try_map *)

\* CACHE_FILE: absent, or what was written of the JSON object: its members
\* in order and whether the text is complete
NoFile == [exists |-> FALSE, members |-> <<>>, complete |-> FALSE]

NoFuture == [state |-> "none", value |-> NoneVal]

NoTranslateCall == [name |-> NoneVal, value |-> NoneVal, external |-> FALSE]

\* A Translator that was constructed without a cache file and never called
TranslatorIdle ==
    /\ tpc = "idle"
    /\ artist_name = NoneVal
    /\ _worker_task = "none"
    /\ _request_queue = <<>>
    /\ future = NoFuture
    /\ cache_file = NoFile
    /\ returned = {}
    /\ last_call = NoTranslateCall

\* normalize_track_name has not been called
NormalizeIdle ==
    /\ given = <<>>
    /\ normal_forms = <<>>

RequestIdle ==
    /\ answers = <<>>
    /\ response = NoneVal

SearchIdle ==
    /\ search_args = NoneVal
    /\ sent_query = NoneVal
    /\ search_return = NoneVal

ListensIdle ==
    /\ history = <<>>
    /\ service = "faithful"
    /\ count = NoneVal
    /\ max_ts = NoneVal
    /\ seen = {}
    /\ yielded = <<>>
    /\ fetched = <<>>
    /\ lpc = "done"
    /\ page = <<>>
    /\ pos = 1
    /\ added = FALSE

BatchIdle ==
    /\ items = <<>>
    /\ output = <<>>
    /\ batch_calls = <<>>

ExecIdle ==
    /\ mappings = <<>>
    /\ deletions = <<>>
    /\ exec_log = <<>>
    /\ mapped_ok = 0
    /\ deleted_ok = 0
    /\ epc = "done"

\* Nothing of the client, the query builder or the commands is in use
ToolsIdle ==
    /\ RequestIdle
    /\ SearchIdle
    /\ ListensIdle
    /\ BatchIdle
    /\ ExecIdle

\* The rate gate before its first request
GateIdle ==
    /\ now = 0
    /\ _last_request_time = 0
    /\ gate_pc = "idle"
    /\ sent_at = <<>>

Labels ==
    {"loop", "exact", "exact_ret", "normalized", "normalized_ret", "translate",
     "release", "release_ret", "trackonly", "trackonly_ret", "submit", "done"}

Init ==
    /\ listens \in SeqsUpTo(ListenPool, MaxListens)
    /\ listens # <<>>
    /\ dry_run \in BOOLEAN
    /\ results = <<>>
    /\ idx = 1
    /\ pc = "loop"
    /\ translated_artist = NoneVal
    /\ match = NoneVal
    /\ search_results = <<>>
    /\ rv = 1
    /\ tv = 1
    /\ cache = {}
    /\ calls = <<>>
    /\ GateIdle
    /\ TranslatorIdle
    /\ NormalizeIdle
    /\ ToolsIdle

listen == listens[idx]

\* Mutant of Append_result: the result is put in front of the list
Append_result_front(result) ==
    /\ results' = <<result>> \o results
    /\ idx' = idx + 1
    /\ pc' = "loop"
    /\ translated_artist' = NoneVal
    /\ match' = NoneVal
    /\ search_results' = <<>>
    /\ rv' = 1
    /\ tv' = 1

\* results.append(result) and the step of the for loop; the locals of
\* _try_map go out of scope
Append_result(result) ==
    /\ results' = Append(results, result)
    /\ idx' = idx + 1
    /\ pc' = "loop"
    /\ translated_artist' = NoneVal
    /\ match' = NoneVal
    /\ search_results' = <<>>
    /\ rv' = 1
    /\ tv' = 1

\* Mutant of Error: the exception is recorded and ends the loop
Error_aborts(message) ==
    /\ results' = Append(results,
                         MappingResult(listen, "ERROR", NoneVal, NoneVal, Some(message)))
    /\ pc' = "done"
    /\ translated_artist' = NoneVal
    /\ match' = NoneVal
    /\ search_results' = <<>>
    /\ rv' = 1
    /\ tv' = 1
    /\ UNCHANGED idx

\* process_listens, except Exception as e
Error(message) ==
    Append_result(MappingResult(listen, "ERROR", NoneVal, NoneVal, Some(message)))

\* Mutants of Matched: dry_run not looked at; the return forgotten, so
\* that _try_map goes on to its last step
Matched_always_submits(m) ==
    /\ match' = Some(m)
    /\ pc' = "submit"
    /\ search_results' = <<>>
    /\ UNCHANGED <<results, idx, translated_artist, rv, tv>>

Matched_no_return(m) ==
    /\ match' = Some(m)
    /\ pc' = "trackonly"
    /\ search_results' = <<>>
    /\ rv' = 1
    /\ tv' = 1
    /\ UNCHANGED <<results, idx, translated_artist>>

\* _try_map, "if match:" with a match: submit unless dry_run, return MAPPED
Matched(m) ==
    IF dry_run
    THEN Append_result(MappingResult(listen, "MAPPED", Some(m), translated_artist, NoneVal))
    ELSE /\ match' = Some(m)
         /\ pc' = "submit"
         /\ search_results' = <<>>
         /\ UNCHANGED <<results, idx, translated_artist, rv, tv>>

\* _try_map, step 5
NoMatch ==
    Append_result(MappingResult(listen, "NO_MATCH", NoneVal, translated_artist, NoneVal))

Goto(label) ==
    /\ pc' = label
    /\ search_results' = <<>>
    /\ UNCHANGED <<results, idx, translated_artist, match, rv, tv>>

\* _try_map after step 2: step 3 if listen.release_name, else step 4
AfterStep2 ==
    IF listen.release_name # <<>> THEN Goto("release") ELSE Goto("trackonly")

\* _try_map after step 1: step 2 if contains_cjk(listen.artist_name)
AfterStep1 ==
    IF contains_cjk(listen.artist_name) THEN Goto("translate") ELSE AfterStep2

\* One search_recordings call: no request without a query part; the request
\* may raise, which leaves _try_map; otherwise the list goes to the caller.
Search(strategy, artist, recording, release, return) ==
    LET sent == query_parts(artist, recording, release) # {}
        made == IF pc = "loop" THEN <<>> ELSE calls
    IN  \/ \E status \in Statuses :
              /\ sent
              /\ _rate_limited_get(status).raised
              /\ calls' = Append(made,
                     [SearchCall(idx, strategy, artist, recording, release,
                                 TRUE, TRUE) EXCEPT !.status = status])
              /\ Error("search")
        \/ \E rs \in (IF sent THEN ResultLists ELSE {<<>>}) :
              /\ calls' = Append(made, SearchCall(idx, strategy, artist, recording,
                                                   release, sent, FALSE))
              /\ search_results' = rs
              /\ pc' = return
              /\ UNCHANGED <<results, idx, translated_artist, match, rv, tv>>

\* for listen in listens: if listen.is_linked
SkipLinked ==
    /\ pc = "loop"
    /\ idx <= Len(listens)
    /\ is_linked(listen)
    /\ Append_result(MappingResult(listen, "ALREADY_LINKED", NoneVal, NoneVal, NoneVal))
    /\ calls' = <<>>
    /\ UNCHANGED <<listens, dry_run, cache>>
    /\ UNCHANGED <<gate_vars, translator_vars, normalize_vars, tool_vars>>

\* The artist argument of find_best_match: step 1 passes listen.artist_name,
\* step 2 passes translated_artist, which is set from then on
artist ==
    IF translated_artist = NoneVal THEN listen.artist_name ELSE translated_artist[1]

\* The strategy a find_best_match search belongs to: step 1, or step 2 with
\* the translated artist
Strategy(query) ==
    IF translated_artist = NoneVal THEN query
    ELSE IF query = "exact" THEN "tr_exact" ELSE "tr_normalized"

\* find_best_match: results = search_recordings(artist, recording), called
\* by step 1 for an unlinked listen and by step 2 after the translation
ExactSearch ==
    /\ \/ pc = "loop" /\ idx <= Len(listens) /\ ~is_linked(listen)
       \/ pc = "exact"
    /\ Search(Strategy("exact"), Some(artist), Some(listen.track_name), NoneVal,
              "exact_ret")
    /\ UNCHANGED <<listens, dry_run, cache>>
    /\ UNCHANGED <<gate_vars, translator_vars, normalize_vars, tool_vars>>

\* find_best_match: results = search_recordings(artist, normalized)
NormalizedSearch ==
    /\ pc = "normalized"
    /\ Search(Strategy("normalized"), Some(artist),
              Some(normalize_track_name(listen.track_name)), NoneVal,
              "normalized_ret")
    /\ UNCHANGED <<listens, dry_run, cache>>
    /\ UNCHANGED <<gate_vars, translator_vars, normalize_vars, tool_vars>>

\* find_best_match returning to _try_map
find_best_match_None ==
    IF translated_artist = NoneVal THEN AfterStep1 ELSE AfterStep2

\* find_best_match: above_threshold after either search, and what follows
find_best_match ==
    /\ pc \in {"exact_ret", "normalized_ret"}
    /\ LET above_threshold == BestOf(search_results, AUTO_ACCEPT_SCORE)
       IN  IF above_threshold # NoneVal
           THEN Matched(above_threshold[1])
           ELSE IF pc = "exact_ret"
                   /\ normalize_track_name(listen.track_name) # listen.track_name
           THEN Goto("normalized")
           ELSE find_best_match_None
    /\ UNCHANGED <<listens, dry_run, cache, calls>>
    /\ UNCHANGED <<gate_vars, translator_vars, normalize_vars, tool_vars>>

\* translator.translate_artist(listen.artist_name): the cached value, or the
\* external translation, which may raise; a new translation is cached
translate_artist ==
    /\ pc = "translate"
    /\ UNCHANGED <<listens, dry_run>>
    /\ LET name == listen.artist_name
           hit == {e \in cache : e[1] = name}
       IN  IF hit # {}
           THEN \E e \in hit :
                  /\ calls' = Append(calls, TranslateCall(idx, name, FALSE, FALSE, Some(e[2])))
                  /\ translated_artist' = Some(e[2])
                  /\ pc' = "exact"
                  /\ UNCHANGED <<results, idx, match, search_results, rv, tv, cache>>
           ELSE \/ /\ calls' = Append(calls, TranslateCall(idx, name, TRUE, TRUE, NoneVal))
                   /\ Error("translate")
                   /\ UNCHANGED cache
                \/ \E translated \in Translations :
                     /\ calls' = Append(calls, TranslateCall(idx, name, TRUE, FALSE,
                                                             Some(translated)))
                     /\ cache' = cache \cup {<<name, translated>>}
                     /\ translated_artist' = Some(translated)
                     /\ pc' = "exact"
                     /\ UNCHANGED <<results, idx, match, search_results, rv, tv>>
    /\ UNCHANGED <<gate_vars, translator_vars, normalize_vars, tool_vars>>

\* Mutant of expected_artist: the translation is not used
expected_artist_original == listen.artist_name

\* expected_artist = translated_artist or listen.artist_name
expected_artist ==
    IF Truthy(translated_artist) THEN translated_artist[1] ELSE listen.artist_name

\* find_match_by_track_release: the search of one pass of the inner loop
TrackReleaseSearch ==
    /\ pc = "release"
    /\ Search("release", NoneVal,
              Some(_track_name_variants(listen.track_name)[tv]),
              Some(_release_name_variants(listen.release_name)[rv]),
              "release_ret")
    /\ UNCHANGED <<listens, dry_run, cache>>
    /\ UNCHANGED <<gate_vars, translator_vars, normalize_vars, tool_vars>>

\* find_match_by_track_release: the for r in results of one pass, and the
\* next pass or the return to _try_map
find_match_by_track_release ==
    /\ pc = "release_ret"
    /\ LET r == ByTrackRelease(search_results, expected_artist)
       IN  IF r # NoneVal
           THEN Matched(r[1])
           ELSE IF tv < Len(_track_name_variants(listen.track_name))
           THEN /\ tv' = tv + 1
                /\ pc' = "release"
                /\ search_results' = <<>>
                /\ UNCHANGED <<results, idx, translated_artist, match, rv>>
           ELSE IF rv < Len(_release_name_variants(listen.release_name))
           THEN /\ rv' = rv + 1
                /\ tv' = 1
                /\ pc' = "release"
                /\ search_results' = <<>>
                /\ UNCHANGED <<results, idx, translated_artist, match>>
           ELSE /\ pc' = "trackonly"
                /\ rv' = 1
                /\ tv' = 1
                /\ search_results' = <<>>
                /\ UNCHANGED <<results, idx, translated_artist, match>>
    /\ UNCHANGED <<listens, dry_run, cache, calls>>
    /\ UNCHANGED <<gate_vars, translator_vars, normalize_vars, tool_vars>>

\* find_match_by_track_only: the search of one pass of the loop
TrackOnlySearch ==
    /\ pc = "trackonly"
    /\ Search("trackonly", NoneVal,
              Some(_track_name_variants(listen.track_name)[tv]), NoneVal,
              "trackonly_ret")
    /\ UNCHANGED <<listens, dry_run, cache>>
    /\ UNCHANGED <<gate_vars, translator_vars, normalize_vars, tool_vars>>

\* find_match_by_track_only: the for r in results of one pass, and the next
\* pass or step 5 of _try_map
find_match_by_track_only ==
    /\ pc = "trackonly_ret"
    /\ LET r == ByTrackOnly(search_results, expected_artist, AUTO_ACCEPT_SCORE)
       IN  IF r # NoneVal
           THEN Matched(r[1])
           ELSE IF tv < Len(_track_name_variants(listen.track_name))
           THEN /\ tv' = tv + 1
                /\ pc' = "trackonly"
                /\ search_results' = <<>>
                /\ UNCHANGED <<results, idx, translated_artist, match, rv>>
           ELSE NoMatch
    /\ UNCHANGED <<listens, dry_run, cache, calls>>
    /\ UNCHANGED <<gate_vars, translator_vars, normalize_vars, tool_vars>>

\* lb.submit_mapping(listen.recording_msid, match.mbid), then return MAPPED;
\* a raise leaves _try_map and is caught by process_listens
SubmitMapping ==
    /\ pc = "submit"
    /\ \E responses \in [1.._MAX_RETRIES -> Statuses] :
          LET out == submit_mapping(responses)
          IN  /\ calls' = Append(calls, SubmitCall(idx, listen.recording_msid,
                                     match[1].mbid, out.status, out.raised))
              /\ IF out.raised
                 THEN Error("submit")
                 ELSE Append_result(MappingResult(listen, "MAPPED", match,
                                                  translated_artist, NoneVal))
    /\ UNCHANGED <<listens, dry_run, cache>>
    /\ UNCHANGED <<gate_vars, translator_vars, normalize_vars, tool_vars>>

\* return results
Return ==
    /\ pc = "loop"
    /\ idx > Len(listens)
    /\ pc' = "done"
    /\ UNCHANGED <<listens, dry_run, results, idx, translated_artist, match,
                   search_results, rv, tv, cache, calls>>
    /\ UNCHANGED <<gate_vars, translator_vars, normalize_vars, tool_vars>>

Next ==
    \/ SkipLinked
    \/ ExactSearch
    \/ NormalizedSearch
    \/ find_best_match
    \/ translate_artist
    \/ TrackReleaseSearch
    \/ find_match_by_track_release
    \/ TrackOnlySearch
    \/ find_match_by_track_only
    \/ SubmitMapping
    \/ Return

Spec == Init /\ [][Next]_vars

TypeOK ==
    /\ listens \in SeqsUpTo(ListenPool, MaxListens)
    /\ dry_run \in BOOLEAN
    /\ idx \in 1..(Len(listens) + 1)
    /\ Len(results) = idx - 1
    /\ pc \in Labels
    /\ search_results \in ResultLists

-----------------------------------------------------------------------------
(* mb_search.py: the rate gate of _rate_limited_get over a clock.          *)
(* Time is counted in ticks of half a second; the callers are the search   *)
(* calls of one process, one after the other.                              *)

Second == 2
MaxTime == 6
MaxRequests == 3

\* No batch is being processed
MapperIdle ==
    /\ listens = <<>>
    /\ dry_run = FALSE
    /\ results = <<>>
    /\ idx = 1
    /\ pc = "done"
    /\ translated_artist = NoneVal
    /\ match = NoneVal
    /\ search_results = <<>>
    /\ rv = 1
    /\ tv = 1
    /\ calls = <<>>

\* _last_request_time: float = 0.0; the first call comes at any time
GateInit ==
    /\ MapperIdle
    /\ cache = {}
    /\ now \in 0..Second
    /\ _last_request_time = 0
    /\ gate_pc = "idle"
    /\ sent_at = <<>>
    /\ TranslatorIdle
    /\ NormalizeIdle
    /\ ToolsIdle

\* Time passes between two calls and while a request is in flight
Elapse ==
    /\ now < MaxTime
    /\ now' = now + 1
    /\ UNCHANGED <<mapper_vars, cache, translator_vars, normalize_vars, tool_vars,
                   _last_request_time, gate_pc, sent_at>>

\* _rate_limited_get up to _client.get: time.sleep(1.0 - elapsed) when less
\* than a second has elapsed (sleep may last longer than asked), then the
\* request is sent
GateSend ==
    /\ gate_pc = "idle"
    /\ Len(sent_at) < MaxRequests
    /\ LET elapsed == now - _last_request_time
       IN  \E late \in 0..1 :
             LET woken == IF elapsed < Second
                          THEN now + (Second - elapsed) + late
                          ELSE now
             IN  /\ woken <= MaxTime
                 /\ now' = woken
                 /\ sent_at' = Append(sent_at, woken)
    /\ gate_pc' = "get"
    /\ UNCHANGED <<mapper_vars, cache, translator_vars, normalize_vars, tool_vars,
                   _last_request_time>>

\* _client.get returns a response, and _last_request_time is set before
\* raise_for_status, or it raises and the assignment is not reached
GateReturn ==
    /\ gate_pc = "get"
    /\ \E status \in Statuses :
          _last_request_time' = IF status = 0 THEN _last_request_time ELSE now
    /\ gate_pc' = "idle"
    /\ UNCHANGED <<mapper_vars, cache, translator_vars, normalize_vars, tool_vars,
                   now, sent_at>>

GateNext ==
    \/ Elapse
    \/ GateSend
    \/ GateReturn

GateSpec == GateInit /\ [][GateNext]_vars

-----------------------------------------------------------------------------
(* translator.py: one Translator after the other over one cache file.      *)
(* The event loop runs only inside run_until_complete, so the worker task  *)
(* takes its steps while a translate_artist call waits for its future.     *)

ArtistKana == <<12450>>

\* The names translate_artist is called with
Names == {ArtistA, ArtistCJK, ArtistKana}

\* What the tool call answers: no text content, or a text
Replies == {NoneVal, Some(<<32, 65, 32>>)}

RECURSIVE text_rstrip(_)
text_rstrip(text) ==
    IF text # <<>> /\ text[Len(text)] = 32
    THEN text_rstrip(SubSeq(text, 1, Len(text) - 1))
    ELSE text

RECURSIVE text_lstrip(_)
text_lstrip(text) ==
    IF text # <<>> /\ text[1] = 32 THEN text_lstrip(Tail(text)) ELSE text

\* _do_translate: content.text.strip() of the text content, else artist_name
_do_translate(name, reply) ==
    IF reply = NoneVal THEN name ELSE text_lstrip(text_rstrip(reply[1]))

\* Mutant of cached: the cache is not looked at
cached_never(c, name) == FALSE

\* artist_name in self._cache
cached(c, name) == \E e \in c : e[1] = name

\* self._cache[artist_name]
lookup(c, name) == (CHOOSE e \in c : e[1] = name)[2]

\* self._cache[artist_name] = translated
put(c, name, translated) ==
    {e \in c : e[1] # name} \cup {<<name, translated>>}

\* json.dumps(self._cache): the members of the object, one after the other
RECURSIVE dumps(_)
dumps(c) ==
    IF c = {} THEN <<>>
    ELSE LET e == CHOOSE e \in c : TRUE IN <<e>> \o dumps(c \ {e})

\* CACHE_FILE.write_text(...) that ran to its end
write_text(members) ==
    [exists |-> TRUE, members |-> members, complete |-> TRUE]

\* The file when the process dies inside write_text: the file was opened
\* for writing, which empties it, and k members got written
torn(members, k) ==
    [exists |-> TRUE, members |-> SubSeq(members, 1, k), complete |-> FALSE]

\* _load_cache: {} without a file and on a JSONDecodeError
_load_cache(file) ==
    IF file.exists /\ file.complete
    THEN {file.members[i] : i \in 1..Len(file.members)}
    ELSE {}

TranslatorInit ==
    /\ MapperIdle
    /\ cache = {}
    /\ GateIdle
    /\ TranslatorIdle
    /\ NormalizeIdle
    /\ ToolsIdle

\* translate_artist(name): the name itself without CJK, the cached value,
\* or _run_translate up to run_until_complete(future)
Translator_translate_artist ==
    /\ tpc = "idle"
    /\ \E name \in Names :
          IF ~contains_cjk(name)
          THEN /\ last_call' = [name |-> Some(name), value |-> Some(name),
                                external |-> FALSE]
               /\ UNCHANGED <<tpc, artist_name, _worker_task, _request_queue,
                              future>>
          ELSE IF cached(cache, name)
          THEN /\ last_call' = [name |-> Some(name),
                                value |-> Some(lookup(cache, name)),
                                external |-> FALSE]
               /\ UNCHANGED <<tpc, artist_name, _worker_task, _request_queue,
                              future>>
          ELSE /\ artist_name' = Some(name)
               /\ _worker_task' = IF _worker_task = "none" THEN "created"
                                                            ELSE _worker_task
               /\ future' = [state |-> "pending", value |-> NoneVal]
               /\ _request_queue' = Append(_request_queue, Some(name))
               /\ tpc' = "waiting"
               /\ UNCHANGED last_call
    /\ UNCHANGED <<mapper_vars, cache, gate_vars, normalize_vars, tool_vars, cache_file,
                   returned>>

\* _worker, first step: the session is opened and initialized, or one of
\* the two raises and the task ends with the exception
Translator_worker_open ==
    /\ tpc = "waiting"
    /\ _worker_task = "created"
    /\ _worker_task' \in {"running", "failed"}
    /\ UNCHANGED <<mapper_vars, cache, gate_vars, normalize_vars, tool_vars, tpc,
                   artist_name, _request_queue, future, cache_file, returned,
                   last_call>>

\* _worker, one pass of its loop for a request: the result or the exception
\* of _do_translate is set on the future
Translator_worker_serve ==
    /\ tpc = "waiting"
    /\ _worker_task = "running"
    /\ _request_queue # <<>>
    /\ Head(_request_queue) # NoneVal
    /\ _request_queue' = Tail(_request_queue)
    /\ \/ \E reply \in Replies :
             future' = [state |-> "result",
                        value |-> Some(_do_translate(Head(_request_queue)[1],
                                                     reply))]
       \/ future' = [state |-> "exception", value |-> NoneVal]
    /\ UNCHANGED <<mapper_vars, cache, gate_vars, normalize_vars, tool_vars, tpc,
                   artist_name, _worker_task, cache_file, returned, last_call>>

\* Mutant of Translator_run_translate: a failed translation falls back to
\* the name itself, which is cached and saved like a result
Translator_run_translate_with_fallback ==
    /\ tpc = "waiting"
    /\ future.state \in {"result", "exception"}
    /\ tpc' = "saving"
    /\ cache' = put(cache, artist_name[1],
                    IF future.state = "exception" THEN artist_name[1]
                                                  ELSE future.value[1])
    /\ future' = NoFuture
    /\ UNCHANGED <<mapper_vars, gate_vars, normalize_vars, tool_vars,
                   artist_name, _worker_task, _request_queue, cache_file,
                   returned, last_call>>

\* run_until_complete(future) returns or raises; with a result,
\* self._cache[artist_name] = translated; the exception leaves
\* translate_artist at once
Translator_run_translate ==
    /\ tpc = "waiting"
    /\ future.state \in {"result", "exception"}
    /\ IF future.state = "exception"
       THEN /\ tpc' = "idle"
            /\ artist_name' = NoneVal
            /\ last_call' = [name |-> artist_name, value |-> NoneVal,
                             external |-> TRUE]
            /\ UNCHANGED cache
       ELSE /\ tpc' = "saving"
            /\ cache' = put(cache, artist_name[1], future.value[1])
            /\ UNCHANGED <<artist_name, last_call>>
    /\ future' = NoFuture
    /\ UNCHANGED <<mapper_vars, gate_vars, normalize_vars, tool_vars, _worker_task,
                   _request_queue, cache_file, returned>>

\* self._save_cache(); return translated
Translator_save_cache ==
    /\ tpc = "saving"
    /\ cache_file' = write_text(dumps(cache))
    /\ returned' = returned \cup {<<artist_name[1], lookup(cache, artist_name[1])>>}
    /\ last_call' = [name |-> artist_name,
                     value |-> Some(lookup(cache, artist_name[1])),
                     external |-> TRUE]
    /\ tpc' = "idle"
    /\ artist_name' = NoneVal
    /\ UNCHANGED <<mapper_vars, cache, gate_vars, normalize_vars, tool_vars, _worker_task,
                   _request_queue, future>>

\* close(): with a worker task, the shutdown request is queued and the task
\* is run to its end, which a running worker reaches by serving the request
\* and a failed one has reached already (its exception is suppressed)
Translator_close ==
    /\ tpc = "idle"
    /\ tpc' = "closed"
    /\ _worker_task' = IF _worker_task = "none" THEN "none" ELSE "done"
    /\ UNCHANGED <<mapper_vars, cache, gate_vars, normalize_vars, tool_vars, artist_name,
                   _request_queue, future, cache_file, returned, last_call>>

\* The process dies: inside write_text the file is left as it was, torn, or
\* written; anywhere else the file is not touched.  The calls of the dead
\* process are over
Crash ==
    /\ tpc \in {"idle", "waiting", "saving"}
    /\ tpc' = "down"
    /\ IF tpc = "saving"
       THEN \/ UNCHANGED cache_file
            \/ \E k \in 0..Len(dumps(cache)) :
                  cache_file' = torn(dumps(cache), k)
            \/ cache_file' = write_text(dumps(cache))
       ELSE UNCHANGED cache_file
    /\ cache' = {}
    /\ artist_name' = NoneVal
    /\ _worker_task' = "none"
    /\ _request_queue' = <<>>
    /\ future' = NoFuture
    /\ last_call' = NoTranslateCall
    /\ UNCHANGED <<mapper_vars, gate_vars, normalize_vars, tool_vars, returned>>

\* Translator.__init__ in the next process
Translator_init ==
    /\ tpc \in {"closed", "down"}
    /\ tpc' = "idle"
    /\ cache' = _load_cache(cache_file)
    /\ _worker_task' = "none"
    /\ _request_queue' = <<>>
    /\ future' = NoFuture
    /\ UNCHANGED <<mapper_vars, gate_vars, normalize_vars, tool_vars, artist_name,
                   cache_file, returned, last_call>>

TranslatorNext ==
    \/ Translator_translate_artist
    \/ Translator_worker_open
    \/ Translator_worker_serve
    \/ Translator_run_translate
    \/ Translator_save_cache
    \/ Translator_close
    \/ Crash
    \/ Translator_init

TranslatorSpec == TranslatorInit /\ [][TranslatorNext]_vars

\* The steps the program takes by itself are taken; a crash need not happen
TranslatorLive ==
    /\ TranslatorSpec
    /\ WF_vars(Translator_worker_open)
    /\ WF_vars(Translator_worker_serve)
    /\ WF_vars(Translator_run_translate)
    /\ WF_vars(Translator_save_cache)

-----------------------------------------------------------------------------
(* mb_search.py: normalize_track_name applied again to its own result *)

MaxLen == 3
MaxPasses == 2

\* What a track name is made of: a title word, white space, and a trailing
\* annotation of each kind the strip patterns remove
Tokens == {"w", "sp", "edit", "key", "feat"}

NormalizeInit ==
    /\ MapperIdle
    /\ cache = {}
    /\ GateIdle
    /\ TranslatorIdle
    /\ given \in SeqsUpTo(Tokens, MaxLen)
    /\ normal_forms = <<>>
    /\ ToolsIdle

\* normalize_track_name(name), for the given name and then for each result
Normalize ==
    /\ Len(normal_forms) < MaxPasses
    /\ normal_forms' =
          Append(normal_forms,
                 normalize_track_name(IF normal_forms = <<>>
                                      THEN given
                                      ELSE normal_forms[Len(normal_forms)]))
    /\ UNCHANGED <<mapper_vars, cache, gate_vars, translator_vars, tool_vars,
                   given>>

NormalizeNext == Normalize

NormalizeSpec == NormalizeInit /\ [][NormalizeNext]_vars

-----------------------------------------------------------------------------
(* mb_search.py: search_recordings, from its arguments to the request that *)
(* goes through the rate gate.  Argument values are code point sequences.  *)

MaxSearches == 2

\* special = r'+-&|!(){}[]^"~*?:\/'
special ==
    {43, 45, 38, 124, 33, 40, 41, 123, 125, 91, 93, 94, 34, 126, 42, 63, 58,
     92, 47}

\* Mutant of _escape: the backslash itself is not escaped
RECURSIVE _escape_but_backslash(_)
_escape_but_backslash(s) ==
    IF s = <<>> THEN <<>>
    ELSE (IF Head(s) \in special \ {92} THEN <<92, Head(s)>> ELSE <<Head(s)>>)
         \o _escape_but_backslash(Tail(s))

\* ''.join(f'\\{c}' if c in special else c for c in s)
RECURSIVE _escape(_)
_escape(s) ==
    IF s = <<>> THEN <<>>
    ELSE (IF Head(s) \in special THEN <<92, Head(s)>> ELSE <<Head(s)>>)
         \o _escape(Tail(s))

\* Mutant of query_terms: a term for every argument that was passed
query_terms_all(a, r, l) ==
    (IF a # NoneVal
     THEN <<[field |-> "artist", value |-> _escape(a[1])]>> ELSE <<>>)
    \o (IF r # NoneVal
        THEN <<[field |-> "recording", value |-> _escape(r[1])]>>
        ELSE <<>>)
    \o (IF l # NoneVal
        THEN <<[field |-> "release", value |-> _escape(l[1])]>>
        ELSE <<>>)

\* search_recordings: query_parts, a term field:"_escape(value)" for each
\* truthy argument, in the order artist, recording, release
query_terms(a, r, l) ==
    (IF Truthy(a)
     THEN <<[field |-> "artist", value |-> _escape(a[1])]>> ELSE <<>>)
    \o (IF Truthy(r)
        THEN <<[field |-> "recording", value |-> _escape(r[1])]>>
        ELSE <<>>)
    \o (IF Truthy(l)
        THEN <<[field |-> "release", value |-> _escape(l[1])]>>
        ELSE <<>>)

\* The characters of the argument values: A + \ "
Chars == {65, 43, 92, 34}

ArtistArgs == {NoneVal} \cup {Some(t) : t \in SeqsUpTo(Chars, 2)}

RecordingArgs == {NoneVal, Some(<<>>), Some(<<65>>), Some(<<92, 43>>)}

ReleaseArgs == {NoneVal, Some(<<>>), Some(<<47, 65>>)}

\* The lists of matches built from an answer
Matches == {<<>>, <<"mb1">>}

SearchInit ==
    /\ MapperIdle
    /\ cache = {}
    /\ now \in 0..Second
    /\ _last_request_time = 0
    /\ gate_pc = "idle"
    /\ sent_at = <<>>
    /\ TranslatorIdle
    /\ NormalizeIdle
    /\ ToolsIdle

\* search_recordings up to _client.get: return [] without query parts;
\* else one _rate_limited_get call, which sleeps as the gate asks and sends
search_recordings ==
    /\ gate_pc = "idle"
    /\ Len(sent_at) < MaxSearches
    /\ \E a \in ArtistArgs, r \in RecordingArgs, l \in ReleaseArgs :
          /\ search_args' = Some([artist |-> a, recording |-> r, release |-> l])
          /\ IF query_terms(a, r, l) = <<>>
             THEN /\ sent_query' = NoneVal
                  /\ search_return' = Some([raised |-> FALSE, matches |-> <<>>])
                  /\ UNCHANGED gate_vars
             ELSE /\ sent_query' = Some(query_terms(a, r, l))
                  /\ search_return' = NoneVal
                  /\ LET elapsed == now - _last_request_time
                         woken == IF elapsed < Second
                                  THEN now + (Second - elapsed)
                                  ELSE now
                     IN  /\ now' = woken
                         /\ sent_at' = Append(sent_at, woken)
                  /\ gate_pc' = "get"
                  /\ UNCHANGED _last_request_time
    /\ UNCHANGED <<mapper_vars, cache, translator_vars, normalize_vars,
                   request_vars, listens_vars, batch_vars, exec_vars>>

\* search_recordings from the answer on: _rate_limited_get returns or
\* raises, and the matches are built from what it returned
search_recordings_return ==
    /\ gate_pc = "get"
    /\ \E status \in Statuses :
          /\ _last_request_time' =
                IF status = 0 THEN _last_request_time ELSE now
          /\ IF _rate_limited_get(status).raised
             THEN search_return' = Some([raised |-> TRUE, matches |-> <<>>])
             ELSE \E ms \in Matches :
                    search_return' = Some([raised |-> FALSE, matches |-> ms])
    /\ gate_pc' = "idle"
    /\ UNCHANGED <<mapper_vars, cache, translator_vars, normalize_vars,
                   request_vars, listens_vars, batch_vars, exec_vars, now,
                   sent_at, search_args, sent_query>>

SearchNext ==
    \/ search_recordings
    \/ search_recordings_return

SearchSpec == SearchInit /\ [][SearchNext]_vars

-----------------------------------------------------------------------------
(* lb_client.py: iter_listens and fetch_listens over the listens of one    *)
(* user.  The service answers a request with the newest listens whose      *)
(* listened_at is below max_ts, a page of them at most; a service that     *)
(* fills its pages in any other way is the second kind.  The generator     *)
(* runs as far as its consumer asks: to its end when count is None, else   *)
(* until fetch_listens breaks out of its loop.                             *)

\* The page size the client asks for (_API_PAGE_LIMIT), scaled down
PageLimit == 2
MaxCount == 3

\* A listen as iter_listens looks at it
Item(ts, msid) == [listened_at |-> ts, recording_msid |-> msid]

\* The listens a history is made of, newest first
HistoryPool == <<Item(2, "a"), Item(2, "b"), Item(2, "c"), Item(1, "a")>>

RECURSIVE SubSeqs(_)
SubSeqs(seq) ==
    IF seq = <<>> THEN {<<>>}
    ELSE LET rest == SubSeqs(Tail(seq))
         IN  rest \cup {<<Head(seq)>> \o t : t \in rest}

Histories == SubSeqs(HistoryPool)

Prefix(seq, n) == SubSeq(seq, 1, IF Len(seq) < n THEN Len(seq) ELSE n)

\* The pages the service may answer a request with
Pages(ts) ==
    IF service = "faithful"
    THEN {Prefix(SelectSeq(history, LAMBDA l :
                     ts = NoneVal \/ l.listened_at < ts[1]),
                 PageLimit)}
    ELSE SeqsUpTo({history[i] : i \in 1..Len(history)}, PageLimit)

\* Mutant of is_new: seen is not looked at
is_new_always(key) == TRUE

\* key not in seen
is_new(key) == key \notin seen

\* fetch_listens: len(result) >= count
count_reached(n) == count # NoneVal /\ n >= count[1]

ListensInit ==
    /\ MapperIdle
    /\ cache = {}
    /\ GateIdle
    /\ TranslatorIdle
    /\ NormalizeIdle
    /\ RequestIdle
    /\ SearchIdle
    /\ BatchIdle
    /\ ExecIdle
    /\ history \in Histories
    /\ service \in {"faithful", "any"}
    /\ count \in {NoneVal} \cup {Some(n) : n \in 0..MaxCount}
    /\ max_ts \in {NoneVal, Some(3)}
    /\ seen = {}
    /\ yielded = <<>>
    /\ fetched = <<>>
    /\ lpc = "request"
    /\ page = <<>>
    /\ pos = 1
    /\ added = FALSE

\* iter_listens: resp = self._request(...), which may raise, and
\* listens_data; return on an empty page
iter_request ==
    /\ lpc = "request"
    /\ \E responses \in [1.._MAX_RETRIES -> Statuses] :
          IF _request(responses, _MAX_RETRIES, 0).raised
          THEN /\ lpc' = "raised"
               /\ UNCHANGED <<page, pos, added>>
          ELSE \E listens_data \in Pages(max_ts) :
                 /\ page' = listens_data
                 /\ pos' = 1
                 /\ added' = FALSE
                 /\ lpc' = IF listens_data = <<>> THEN "done" ELSE "page"
    /\ UNCHANGED <<mapper_vars, cache, gate_vars, translator_vars,
                   normalize_vars, request_vars, search_vars, batch_vars,
                   exec_vars, history, service, count, max_ts, seen, yielded,
                   fetched>>

\* iter_listens: one pass of for item in listens_data; a new listen is
\* yielded to fetch_listens, which appends it and breaks when it has count
iter_item ==
    /\ lpc = "page"
    /\ pos <= Len(page)
    /\ LET key == <<page[pos].listened_at, page[pos].recording_msid>>
       IN  IF is_new(key)
           THEN /\ seen' = seen \cup {key}
                /\ yielded' = Append(yielded, page[pos])
                /\ added' = TRUE
                /\ fetched' = IF count = NoneVal THEN fetched
                                                 ELSE Append(fetched, page[pos])
                /\ lpc' = IF count_reached(Len(fetched) + 1) THEN "stopped"
                                                              ELSE "page"
           ELSE UNCHANGED <<seen, yielded, added, fetched, lpc>>
    /\ pos' = pos + 1
    /\ UNCHANGED <<mapper_vars, cache, gate_vars, translator_vars,
                   normalize_vars, request_vars, search_vars, batch_vars,
                   exec_vars, history, service, count, max_ts, page>>

\* iter_listens after the for loop: return if not added, else
\* max_ts = listens_data[-1]['listened_at'] + 1
iter_page_end ==
    /\ lpc = "page"
    /\ pos > Len(page)
    /\ IF ~added
       THEN lpc' = "done" /\ UNCHANGED max_ts
       ELSE lpc' = "request" /\ max_ts' = Some(page[Len(page)].listened_at + 1)
    /\ UNCHANGED <<mapper_vars, cache, gate_vars, translator_vars,
                   normalize_vars, request_vars, search_vars, batch_vars,
                   exec_vars, history, service, count, seen, yielded, fetched,
                   page, pos, added>>

ListensNext ==
    \/ iter_request
    \/ iter_item
    \/ iter_page_end

ListensSpec == ListensInit /\ [][ListensNext]_vars

\* The generator and its consumer take their next step
ListensLive == ListensSpec /\ WF_vars(ListensNext)

-----------------------------------------------------------------------------
(* lb_client.py: the loop of _request, one step per statement.  answers    *)
(* holds the status the service gives to each attempt in turn (0: the      *)
(* transport raises); response is the frame of the call.                   *)

MaxAnswers == 4

\* Mutant of retry_wanted: every error status is retried
retry_wanted_on_error(status, retries_left) ==
    ~(status >= 200 /\ status <= 299) /\ retries_left > 0

\* not (resp.status_code != 429 or retries_left <= 0)
retry_wanted(status, retries_left) == status = 429 /\ retries_left > 0

RequestInit ==
    /\ MapperIdle
    /\ cache = {}
    /\ GateIdle
    /\ TranslatorIdle
    /\ NormalizeIdle
    /\ SearchIdle
    /\ ListensIdle
    /\ BatchIdle
    /\ ExecIdle
    /\ answers \in [1..MaxAnswers -> Statuses]
    /\ response = [at |-> "send", retries_left |-> _MAX_RETRIES,
                   attempts |-> 0, slept |-> 0, status |-> 0]

\* resp = self._client.request(...); retries_left -= 1; break or go on
request_send ==
    /\ response.at = "send"
    /\ response.attempts < MaxAnswers
    /\ LET status == answers[response.attempts + 1]
           left == response.retries_left - 1
       IN  response' =
               [response EXCEPT
                   !.attempts = @ + 1,
                   !.status = status,
                   !.retries_left = left,
                   !.at = IF status = 0 THEN "raised"
                          ELSE IF retry_wanted(status, left) THEN "sleep"
                          ELSE "check"]
    /\ UNCHANGED <<mapper_vars, cache, gate_vars, translator_vars,
                   normalize_vars, search_vars, listens_vars, batch_vars,
                   exec_vars, answers>>

\* self._sleep_for_reset(resp), then the next pass of the loop
request_sleep ==
    /\ response.at = "sleep"
    /\ response' = [response EXCEPT !.slept = @ + 1, !.at = "send"]
    /\ UNCHANGED <<mapper_vars, cache, gate_vars, translator_vars,
                   normalize_vars, search_vars, listens_vars, batch_vars,
                   exec_vars, answers>>

\* resp.raise_for_status(); self._sleep_if_near_limit(resp); return resp
request_return ==
    /\ response.at = "check"
    /\ response' =
           [response EXCEPT
               !.at = IF response.status >= 200 /\ response.status <= 299
                      THEN "returned" ELSE "raised"]
    /\ UNCHANGED <<mapper_vars, cache, gate_vars, translator_vars,
                   normalize_vars, search_vars, listens_vars, batch_vars,
                   exec_vars, answers>>

RequestNext ==
    \/ request_send
    \/ request_sleep
    \/ request_return

RequestSpec == RequestInit /\ [][RequestNext]_vars

\* The call runs on: the transport answers or raises, the sleep ends
RequestLive == RequestSpec /\ WF_vars(RequestNext)

-----------------------------------------------------------------------------
(* cli/search_batch.py over lb_search.py: one step per item read.  An item *)
(* is a JSON object; a key it does not have is NoneVal here.  A search     *)
(* that fails returns the empty list, like a search that finds nothing.    *)

MaxItems == 2

\* Mutant of lb_search_contains_cjk: the range of mb_search.py only
lb_search_contains_cjk_ideographs(s) ==
    \E i \in 1..Len(s) : s[i] >= 12288 /\ s[i] <= 40959

\* lb_search.py, contains_cjk: [\u3000-\u9fff\uac00-\ud7af\uf900-\ufaff
\* \uff65-\uff9f]
lb_search_contains_cjk(s) ==
    \E i \in 1..Len(s) :
        \/ s[i] >= 12288 /\ s[i] <= 40959
        \/ s[i] >= 44032 /\ s[i] <= 55215
        \/ s[i] >= 63744 /\ s[i] <= 64255
        \/ s[i] >= 65381 /\ s[i] <= 65439

\* item.get(key, '')
get(obj, key) == IF obj[key] = NoneVal THEN <<>> ELSE obj[key][1]

\* asdict(m)
asdict(m) == [recording_mbid |-> m.recording_mbid]

\* [asdict(m) for m in results]
RECURSIVE asdicts(_)
asdicts(ms) ==
    IF ms = <<>> THEN <<>> ELSE <<asdict(Head(ms))>> \o asdicts(Tail(ms))

\* {**item, 'results': [...]}
entry_of(obj, ms) == [results |-> asdicts(ms)] @@ obj

\* f'{artist} {recording}'.strip()
search_query(a, r) == text_lstrip(text_rstrip(a \o <<32>> \o r))

\* search_recording: what it may return; [] without a request for an empty
\* query, [] for a failed request or an answer that is no list
search_recording(a, r) ==
    IF search_query(a, r) = <<>>
    THEN {<<>>}
    ELSE {<<>>, <<[recording_mbid |-> "mbid1"]>>,
          <<[recording_mbid |-> "mbid1"], [recording_mbid |-> "mbid2"]>>}

ArtistHalfwidth == <<65398>>

BatchItems ==
    [artist : {NoneVal, Some(<<>>), Some(ArtistA)},
     track : {Some(<<>>), Some(<<66>>)},
     original_artist : {NoneVal, Some(<<>>), Some(ArtistA), Some(ArtistCJK),
                        Some(ArtistHangul), Some(ArtistHalfwidth)}]

BatchCall(i, a, r, ms) ==
    [index |-> i, artist |-> a, recording |-> r, results |-> ms]

BatchInit ==
    /\ MapperIdle
    /\ cache = {}
    /\ GateIdle
    /\ TranslatorIdle
    /\ NormalizeIdle
    /\ RequestIdle
    /\ SearchIdle
    /\ ListensIdle
    /\ ExecIdle
    /\ items \in SeqsUpTo(BatchItems, MaxItems)
    /\ output = <<>>
    /\ batch_calls = <<>>

\* main: one pass of the loop, entry = _search_one(item); output.append(entry)
search_one ==
    /\ Len(output) < Len(items)
    /\ LET i == Len(output) + 1
           a == get(items[i], "artist")
           r == get(items[i], "track")
           original == get(items[i], "original_artist")
       IN  \E first \in search_recording(a, r) :
             IF first = <<>> /\ original # <<>>
                  /\ lb_search_contains_cjk(original)
             THEN \E second \in search_recording(original, r) :
                    /\ batch_calls' = batch_calls
                           \o <<BatchCall(i, a, r, first),
                                BatchCall(i, original, r, second)>>
                    /\ output' = Append(output, entry_of(items[i], second))
             ELSE /\ batch_calls' = Append(batch_calls,
                                           BatchCall(i, a, r, first))
                  /\ output' = Append(output, entry_of(items[i], first))
    /\ UNCHANGED <<mapper_vars, cache, gate_vars, translator_vars,
                   normalize_vars, request_vars, search_vars, listens_vars,
                   exec_vars, items>>

BatchNext == search_one

BatchSpec == BatchInit /\ [][BatchNext]_vars

-----------------------------------------------------------------------------
(* cli/execute.py: main, one step per item of the two loops.  A key an     *)
(* item does not have is NoneVal here; exec_log holds, for every pass of a *)
(* loop, whether the client was called and the status of its last answer.  *)

MaxMappings == 2
MaxDeletions == 2

MappingItems ==
    [recording_msid : {NoneVal, Some("msid1")},
     recording_mbid : {NoneVal, Some("mbid1")}]

DeletionItems ==
    [listened_at : {NoneVal, Some(1)},
     recording_msid : {NoneVal, Some("msid1")}]

\* lb_client.py, delete_listen: self._request('POST', '/1/delete-listen', ...)
delete_listen(responses) == _request(responses, _MAX_RETRIES, 0)

ExecEntry(kind, i, called, status) ==
    [kind |-> kind, index |-> i, called |-> called, status |-> status]

ExecInit ==
    /\ MapperIdle
    /\ cache = {}
    /\ GateIdle
    /\ TranslatorIdle
    /\ NormalizeIdle
    /\ RequestIdle
    /\ SearchIdle
    /\ ListensIdle
    /\ BatchIdle
    /\ mappings \in SeqsUpTo(MappingItems, MaxMappings)
    /\ deletions \in SeqsUpTo(DeletionItems, MaxDeletions)
    /\ exec_log = <<>>
    /\ mapped_ok = 0
    /\ deleted_ok = 0
    /\ epc = "mappings"

\* One pass of for i, m in enumerate(mappings, 1): KeyError for a missing
\* key, else submit_mapping, which may raise httpx.HTTPError
execute_mapping ==
    /\ epc = "mappings"
    /\ Len(exec_log) < Len(mappings)
    /\ LET i == Len(exec_log) + 1
       IN  IF mappings[i].recording_msid = NoneVal
                \/ mappings[i].recording_mbid = NoneVal
           THEN /\ exec_log' = Append(exec_log,
                                      ExecEntry("mapping", i, FALSE, 0))
                /\ UNCHANGED mapped_ok
           ELSE \E responses \in [1.._MAX_RETRIES -> Statuses] :
                  LET out == submit_mapping(responses)
                  IN  /\ exec_log' = Append(exec_log,
                             ExecEntry("mapping", i, TRUE, out.status))
                      /\ mapped_ok' = IF out.raised THEN mapped_ok
                                                    ELSE mapped_ok + 1
    /\ UNCHANGED <<mapper_vars, cache, gate_vars, translator_vars,
                   normalize_vars, request_vars, search_vars, listens_vars,
                   batch_vars, mappings, deletions, deleted_ok, epc>>

\* The first loop is over
execute_mappings_done ==
    /\ epc = "mappings"
    /\ Len(exec_log) = Len(mappings)
    /\ epc' = "deletions"
    /\ UNCHANGED <<mapper_vars, cache, gate_vars, translator_vars,
                   normalize_vars, request_vars, search_vars, listens_vars,
                   batch_vars, mappings, deletions, exec_log, mapped_ok,
                   deleted_ok>>

\* One pass of for i, d in enumerate(deletions, 1)
execute_deletion ==
    /\ epc = "deletions"
    /\ Len(exec_log) < Len(mappings) + Len(deletions)
    /\ LET i == Len(exec_log) - Len(mappings) + 1
       IN  IF deletions[i].recording_msid = NoneVal
                \/ deletions[i].listened_at = NoneVal
           THEN /\ exec_log' = Append(exec_log,
                                      ExecEntry("deletion", i, FALSE, 0))
                /\ UNCHANGED deleted_ok
           ELSE \E responses \in [1.._MAX_RETRIES -> Statuses] :
                  LET out == delete_listen(responses)
                  IN  /\ exec_log' = Append(exec_log,
                             ExecEntry("deletion", i, TRUE, out.status))
                      /\ deleted_ok' = IF out.raised THEN deleted_ok
                                                     ELSE deleted_ok + 1
    /\ UNCHANGED <<mapper_vars, cache, gate_vars, translator_vars,
                   normalize_vars, request_vars, search_vars, listens_vars,
                   batch_vars, mappings, deletions, mapped_ok, epc>>

\* The second loop is over: the counts are printed
execute_report ==
    /\ epc = "deletions"
    /\ Len(exec_log) = Len(mappings) + Len(deletions)
    /\ epc' = "done"
    /\ UNCHANGED <<mapper_vars, cache, gate_vars, translator_vars,
                   normalize_vars, request_vars, search_vars, listens_vars,
                   batch_vars, mappings, deletions, exec_log, mapped_ok,
                   deleted_ok>>

ExecNext ==
    \/ execute_mapping
    \/ execute_mappings_done
    \/ execute_deletion
    \/ execute_report

ExecSpec == ExecInit /\ [][ExecNext]_vars

-----------------------------------------------------------------------------
(* Vocabulary of the properties *)

\* The loop has just recorded the result of listens[idx - 1]; calls is the
\* trace of that listen
Recorded == pc \in {"loop", "done"} /\ idx > 1

HasLink(l) == l.mbid_mapping # NoneVal

last_result == results[idx - 1]

Range(seq) == {seq[i] : i \in 1..Len(seq)}

Searches == SelectSeq(calls, LAMBDA c : c.op = "search")

Submits == SelectSeq(calls, LAMBDA c : c.op = "submit")

last_search == Searches[Len(Searches)]

ContainsCI(expected, credit) == Contains(lower(expected), lower(credit))

\* The expected artist of the fallbacks, from what a result carries
ExpectedOf(result) ==
    IF Truthy(result.translated_artist)
    THEN result.translated_artist[1]
    ELSE result.listen.artist_name

\* The acceptance rule of each strategy, as the specification states it
RuleOK(strategy, expected, r) ==
    CASE strategy \in {"exact", "normalized", "tr_exact", "tr_normalized"} ->
            r.score >= 90
      [] strategy = "release" -> ContainsCI(expected, r.artist_credit)
      [] strategy = "trackonly" ->
            r.score >= 90 /\ ContainsCI(expected, r.artist_credit)

\* The candidate the pipeline has accepted for the current listen, if any
Accepted ==
    IF pc = "submit" THEN match
    ELSE IF Recorded /\ last_result.status = "MAPPED" THEN last_result.match
    ELSE NoneVal

-----------------------------------------------------------------------------
(* C1: a MAPPED result carries a match, and that match satisfies the       *)
(* acceptance rule of the strategy whose search produced it: score >= 90   *)
(* for the artist+recording searches, the expected artist inside the       *)
(* artist credit (ignoring case) for track+release, both for track-only.   *)
C1_MappedSatisfiesRule ==
    (Recorded /\ last_result.status = "MAPPED") =>
        /\ last_result.match # NoneVal
        /\ Searches # <<>>
        /\ last_search.listen = idx - 1
        /\ RuleOK(last_search.strategy, ExpectedOf(last_result),
                  last_result.match[1])

\* MAPPED by the track+release fallback with a score below the threshold
C1_Witness ==
    /\ Recorded
    /\ last_result.status = "MAPPED"
    /\ last_search.strategy = "release"
    /\ last_result.match[1].score < 90

(* C2: a candidate is accepted on its score alone only when the query that *)
(* returned it held an artist term and a recording term; for every other   *)
(* query the accepted candidate's credit contains the expected artist.     *)
C2_ScoreAloneNeedsArtistAndRecording ==
    (Recorded /\ last_result.status = "MAPPED") =>
        \/ {"artist", "recording"} \subseteq
              query_parts(last_search.artist, last_search.recording,
                          last_search.release)
        \/ ContainsCI(ExpectedOf(last_result), last_result.match[1].artist_credit)

(* C3: the track-only fallback returns a candidate only if its score is at *)
(* least 90 and its artist credit contains the expected artist (ignoring   *)
(* case); when no candidate of the returned list passes both tests the     *)
(* step accepts nothing.                                                   *)
C3_TrackOnlyChecksArtistAndScore ==
    [][pc = "trackonly_ret" =>
        LET passing == {r \in Range(search_results) :
                          /\ r.score >= 90
                          /\ ContainsCI(expected_artist, r.artist_credit)}
        IN  /\ Accepted' # NoneVal => Accepted'[1] \in passing
            /\ passing = {} => Accepted' = NoneVal /\ pc' # "submit"]_vars

\* The track-only search has returned a candidate with a high score under
\* another artist, and none that passes both tests
C3_Witness ==
    /\ pc = "trackonly_ret"
    /\ \E r \in Range(search_results) :
          r.score >= 90 /\ ~ContainsCI(expected_artist, r.artist_credit)
    /\ \A r \in Range(search_results) :
          ~(r.score >= 90 /\ ContainsCI(expected_artist, r.artist_credit))

(* C4: a listen that carries a link gets ALREADY_LINKED, and no search,    *)
(* translation or submit call is made for it, wherever it is in the batch. *)
C4_LinkedListenIsSkipped ==
    /\ \A i \in 1..Len(results) :
          HasLink(listens[i]) => results[i].status = "ALREADY_LINKED"
    /\ \A c \in Range(calls) : ~HasLink(listens[c.listen])
    /\ (Recorded /\ HasLink(listens[idx - 1])) => calls = <<>>
    /\ (idx <= Len(listens) /\ HasLink(listen)) => pc = "loop"

\* A linked listen in second place, after a listen that was searched
C4_Witness ==
    /\ Len(results) = 2
    /\ results[1].status = "NO_MATCH"
    /\ results[2].status = "ALREADY_LINKED"
    /\ calls = <<>>

(* C5: a failure raised by a call made for a listen is caught: the listen  *)
(* gets exactly one result, ERROR with a message, the loop goes on with    *)
(* the next listen, and the batch ends with one result per listen.         *)
C5_ErrorIsCaughtAndBatchContinues ==
    /\ \A k \in 1..Len(calls) :
          calls[k].raised =>
              /\ k = Len(calls)
              /\ Recorded
              /\ calls[k].listen = idx - 1
              /\ last_result.status = "ERROR"
              /\ last_result.error # NoneVal
              /\ last_result.listen = listens[idx - 1]
    /\ (Recorded /\ last_result.status = "ERROR") =>
          calls # <<>> /\ calls[Len(calls)].raised
    /\ Len(results) = idx - 1
    /\ pc = "done" => Len(results) = Len(listens)

\* The first listen failed and the second was mapped
C5_Witness ==
    /\ pc = "done"
    /\ Len(results) = 2
    /\ results[1].status = "ERROR"
    /\ results[2].status = "MAPPED"

(* C6: results holds one result per listen, in the order of the batch, and *)
(* listens are handled one at a time: every call of the trace is a call    *)
(* for the one listen in progress, made when exactly the results of the    *)
(* listens before it were recorded.                                        *)
C6_OneResultPerListenInOrder ==
    /\ Len(results) <= Len(listens)
    /\ \A i \in 1..Len(results) : results[i].listen = listens[i]
    /\ pc = "done" => Len(results) = Len(listens)
    /\ \A c \in Range(calls) :
          /\ c.listen = (IF pc \in {"loop", "done"} THEN idx - 1 ELSE idx)
          /\ Len(results) \in {c.listen - 1, c.listen}
    /\ pc \notin {"loop", "done"} => Len(results) = idx - 1

\* Two different listens, both searched, both recorded
C6_Witness ==
    /\ pc = "done"
    /\ Len(results) = 2
    /\ listens[1] # listens[2]
    /\ results[1].status = "NO_MATCH"
    /\ results[2].status = "MAPPED"
    /\ calls # <<>>

(* C7: outside dry-run a submit_mapping call that fails makes the listen's *)
(* result ERROR; a MAPPED result implies a submission whose last answer    *)
(* was a success status.                                                   *)
C7_FailedSubmitIsError ==
    Recorded =>
        /\ \A c \in Range(Submits) :
              ~(c.status \in 200..299) => last_result.status = "ERROR"
        /\ (~dry_run /\ last_result.status = "MAPPED") =>
              /\ Submits # <<>>
              /\ Submits[Len(Submits)].status \in 200..299
              /\ ~Submits[Len(Submits)].raised

\* The service answered 429 to every attempt of the submission
C7_Witness ==
    /\ Recorded
    /\ ~dry_run
    /\ Submits # <<>>
    /\ Submits[1].status = 429
    /\ last_result.status = "ERROR"

(* C8: in dry-run no submit_mapping call is made. Outside dry-run a MAPPED *)
(* listen has exactly one submit call, made before its result is recorded, *)
(* with the listen's recording_msid and the mbid of the match; a listen    *)
(* that ends NO_MATCH or ALREADY_LINKED has none.                          *)
C8_SubmitOnlyForMappedOutsideDryRun ==
    /\ dry_run => Submits = <<>>
    /\ Len(Submits) <= 1
    /\ pc = "submit" => Submits = <<>> /\ Len(results) = idx - 1
    /\ Recorded =>
          /\ (~dry_run /\ last_result.status = "MAPPED") =>
                /\ Len(Submits) = 1
                /\ calls[Len(calls)] = Submits[1]
                /\ Submits[1].listen = idx - 1
                /\ Submits[1].msid = listens[idx - 1].recording_msid
                /\ Submits[1].mbid = last_result.match[1].mbid
          /\ last_result.status \in {"NO_MATCH", "ALREADY_LINKED"} =>
                Submits = <<>>

\* Outside dry-run, a listen mapped after its artist was translated
C8_Witness ==
    /\ Recorded
    /\ ~dry_run
    /\ last_result.status = "MAPPED"
    /\ last_result.translated_artist # NoneVal
    /\ Len(Submits) = 1

\* The place of a call in the order of the strategies
Rank(c) ==
    CASE c.strategy = "exact" -> 1
      [] c.strategy = "normalized" -> 2
      [] c.strategy = "translated" -> 3
      [] c.strategy = "tr_exact" -> 4
      [] c.strategy = "tr_normalized" -> 5
      [] c.strategy = "release" -> 6
      [] c.strategy = "trackonly" -> 7
      [] c.strategy = "submit" -> 8

ReturnLabels == {"exact_ret", "normalized_ret", "release_ret", "trackonly_ret"}

(* C9: the calls for a listen follow the order exact, normalized title,    *)
(* translated artist, track+release, track-only; a strategy whose search   *)
(* returned a candidate that its rule accepts ends the sequence, and once  *)
(* a candidate is accepted only the submit call may follow for the listen. *)
C9_StrategyOrderAndFirstAcceptEnds ==
    /\ [](\A j, k \in 1..Len(calls) : j < k => Rank(calls[j]) <= Rank(calls[k]))
    /\ [][(pc \in ReturnLabels
            /\ \E r \in Range(search_results) :
                  RuleOK(last_search.strategy, expected_artist, r))
          => (Accepted' # NoneVal /\ pc' \in {"submit", "loop"})]_vars
    /\ [][pc = "submit"
          => (Len(calls') = Len(calls) + 1 /\ calls'[Len(calls')].op = "submit"
              /\ pc' = "loop")]_vars

\* The exact search was the only search of a mapped listen that has a
\* normalized title, a translatable artist and a release
C9_Witness ==
    /\ Recorded
    /\ last_result.status = "MAPPED"
    /\ Len(Searches) = 1
    /\ contains_cjk(last_result.listen.artist_name)
    /\ last_result.listen.release_name # <<>>
    /\ normalize_track_name(last_result.listen.track_name)
          # last_result.listen.track_name

\* The first candidate of a list that the rule of the strategy accepts
RECURSIVE FirstOK(_, _, _)
FirstOK(strategy, expected, rs) ==
    IF rs = <<>> THEN NoneVal
    ELSE IF RuleOK(strategy, expected, Head(rs)) THEN Some(Head(rs))
    ELSE FirstOK(strategy, expected, Tail(rs))

\* The strategies that apply to a listen
Applicable(l) ==
    LET retry == normalize_track_name(l.track_name) # l.track_name
        cjk == contains_cjk(l.artist_name)
    IN  {"exact", "trackonly"}
        \cup (IF retry THEN {"normalized"} ELSE {})
        \cup (IF cjk THEN {"translated", "tr_exact"} ELSE {})
        \cup (IF cjk /\ retry THEN {"tr_normalized"} ELSE {})
        \cup (IF l.release_name # <<>> THEN {"release"} ELSE {})

\* After each search the candidate accepted is the first one of the
\* returned list that the rule of the strategy accepts, none if there is none
SelectsFirstAcceptable ==
    [][(pc \in ReturnLabels) =>
          (Accepted' = FirstOK(last_search.strategy, expected_artist, search_results))
      ]_vars

\* A listen ends NO_MATCH only after every applicable strategy was tried
NoMatchAfterAllStrategies ==
    [](  (Recorded /\ last_result.status = "NO_MATCH") =>
            /\ {c.strategy : c \in Range(calls)} = Applicable(last_result.listen)
            /\ \A c \in Range(calls) : ~c.raised)

-----------------------------------------------------------------------------
(* C11: search_recordings never raises on a backend failure: whatever the  *)
(* transport does and whatever status the request is answered with, the    *)
(* call returns a list (an empty one on failure) and the listen goes on to *)
(* its next strategy.                                                      *)
C11_SearchNeverRaises ==
    \A i \in 1..Len(calls) : calls[i].op = "search" => ~calls[i].raised

\* The search call calls[i] sent the normalized form of a name
SentNormalized(i) ==
    LET l == listens[calls[i].listen]
    IN  \/ calls[i].recording # Some(l.track_name)
        \/ calls[i].release \notin {NoneVal, Some(l.release_name)}

SameQuery(c, d) ==
    /\ c.artist = d.artist
    /\ c.recording = d.recording
    /\ c.release = d.release

(* C12: a second query with the normalized track or release name is made   *)
(* only when the normalized form is non-empty and differs from the         *)
(* original: no search call of any strategy carries an empty normalized    *)
(* name, and no search call repeats the query of the call before it.       *)
C12_NormalizedQueryOnlyWhenWorthIt ==
    \A i \in 1..Len(calls) :
        calls[i].op = "search" =>
            /\ SentNormalized(i) =>
                  /\ calls[i].recording # Some(<<>>)
                  /\ calls[i].release # Some(<<>>)
            /\ (i > 1 /\ calls[i - 1].op = "search"
                      /\ calls[i - 1].strategy = calls[i].strategy)
                  => ~SameQuery(calls[i - 1], calls[i])

(* C13: catalog requests are at most one per second: whatever the outcome  *)
(* of the requests (answer, error status, transport error), any two        *)
(* consecutive requests sent by _rate_limited_get are at least one second  *)
(* apart.                                                                  *)
C13_RequestsOneSecondApart ==
    \A i \in 1..(Len(sent_at) - 1) : sent_at[i + 1] - sent_at[i] >= Second

(* C14: no call of translate_artist blocks for ever: a call that waits for *)
(* its future eventually returns a value or raises, also when the worker   *)
(* fails while it opens its session.                                       *)
C14_TranslateArtistReturns == (tpc = "waiting") ~> (tpc # "waiting")

(* C18: no key of the translation cache is ever given a different value:   *)
(* the cache of one Translator holds one value per name, and every entry   *)
(* it holds is still there, unchanged, after each step of that Translator. *)
C18_CacheEntryKeepsItsValue ==
    /\ [](\A e, f \in cache : e[1] = f[1] => e = f)
    /\ [][(tpc # "down" /\ tpc' # "down") => (\A e \in cache : e \in cache')]_vars

\* A second call for a cached name has returned, another name is cached too
C18_Witness ==
    /\ tpc = "idle"
    /\ last_call.name # NoneVal
    /\ ~last_call.external
    /\ <<last_call.name[1], last_call.value[1]>> \in cache
    /\ <<last_call.name[1], last_call.value[1]>> \in returned
    /\ Cardinality(cache) = 2

(* C19: once translate_artist(name) has returned v for a CJK name, every   *)
(* later translate_artist(name) returns v from the cache, in the same      *)
(* process and in a Translator created after a restart or a crash: every   *)
(* returned translation is in the cache of the Translator in use.          *)
C19_ReturnedTranslationIsKept ==
    tpc = "idle" =>
        \A e \in returned : cached(cache, e[1]) /\ lookup(cache, e[1]) = e[2]

\* An artist name written, in part at least, in CJK ideographs, Kana or
\* Hangul: the code points U+3000..U+9FFF and U+AC00..U+D7AF
HasCJKScript(text) ==
    \E i \in 1..Len(text) :
        \/ text[i] >= 12288 /\ text[i] <= 40959
        \/ text[i] >= 44032 /\ text[i] <= 55215

(* C15: the translated-artist step runs exactly for the listens whose      *)
(* artist+recording searches accepted nothing and whose artist name holds  *)
(* a CJK ideograph, a Kana or a Hangul character: the translator is never  *)
(* called for a name without these scripts, and a listen with such a name  *)
(* does not reach the fallbacks' verdict NO_MATCH without a translation.   *)
C15_TranslationStepIffCJKScript ==
    /\ \A i \in 1..Len(calls) :
          calls[i].op = "translate" =>
              HasCJKScript(listens[calls[i].listen].artist_name)
    /\ (Recorded /\ last_result.status = "NO_MATCH"
               /\ HasCJKScript(last_result.listen.artist_name))
          => \E i \in 1..Len(calls) : calls[i].op = "translate"

\* The translation translate_artist returned for the listen of the trace
Computed ==
    LET ts == SelectSeq(calls, LAMBDA c : c.op = "translate" /\ ~c.raised)
    IN  IF ts = <<>> THEN NoneVal ELSE ts[1].value

\* The expected artist of the fallbacks, from the trace
ExpectedFromTrace ==
    IF Computed # NoneVal /\ Computed[1] # <<>>
    THEN Computed[1]
    ELSE listens[idx].artist_name

\* The candidates of the list in hand that pass the rule of the fallback
\* that asked for it
Passing ==
    SelectSeq(search_results, LAMBDA r :
        /\ ContainsCI(ExpectedFromTrace, r.artist_credit)
        /\ pc = "trackonly_ret" => r.score >= 90)

(* C16: a translated artist name, once computed for a listen, is kept: a   *)
(* MAPPED or NO_MATCH result carries exactly the translation that was      *)
(* computed (none if none was), and both fallbacks accept by the           *)
(* translated name when there is one, else by the original name.           *)
C16_TranslatedArtistIsRetained ==
    /\ []((Recorded /\ last_result.status \in {"MAPPED", "NO_MATCH"})
            => last_result.translated_artist = Computed)
    /\ [][(pc \in {"release_ret", "trackonly_ret"}) =>
            IF Passing # <<>>
            THEN Accepted' = Some(Passing[1])
            ELSE Accepted' = NoneVal]_vars

\* NO_MATCH after a translation whose searches accepted nothing, with both
\* fallbacks tried
C16_Witness ==
    /\ Recorded
    /\ last_result.status = "NO_MATCH"
    /\ last_result.translated_artist = Some(ArtistA)
    /\ \E i \in 1..Len(calls) : calls[i].strategy = "release"
    /\ \E i \in 1..Len(calls) : calls[i].strategy = "trackonly"

ReleaseCalls ==
    SelectSeq(calls, LAMBDA c : c.op = "search" /\ c.strategy = "release")

\* A name and its normalized form, when that is non-empty and different
Variants(name, normalized) ==
    IF normalized # name /\ normalized # <<>>
    THEN <<name, normalized>>
    ELSE <<name>>

\* The k-th query of the track+release fallback for listen l: release
\* variants in the outer loop, track variants in the inner loop
Combination(l, k) ==
    LET tracks == Variants(l.track_name, normalize_track_name(l.track_name))
        releases == Variants(l.release_name,
                             normalize_release_name(l.release_name))
    IN  [recording |-> tracks[((k - 1) % Len(tracks)) + 1],
         release |-> releases[((k - 1) \div Len(tracks)) + 1]]

(* C17: the track+release fallback runs only for a listen with a release   *)
(* name, makes at most 4 queries, in the order release variants outside,   *)
(* track variants inside, original before normalized, without an artist    *)
(* term, and returns the first candidate of the list in hand whose artist  *)
(* credit contains the expected artist (ignoring case), whatever its       *)
(* score; with no such candidate it goes on, and returns None in the end.  *)
C17_TrackReleaseFallback ==
    /\ [](ReleaseCalls # <<>> =>
            LET l == listens[ReleaseCalls[1].listen]
            IN  /\ l.release_name # <<>>
                /\ Len(ReleaseCalls) <= 4
                /\ \A k \in 1..Len(ReleaseCalls) :
                      /\ ReleaseCalls[k].artist = NoneVal
                      /\ ReleaseCalls[k].recording = Some(Combination(l, k).recording)
                      /\ ReleaseCalls[k].release = Some(Combination(l, k).release))
    /\ [][(pc = "release_ret") =>
            LET ok == SelectSeq(search_results, LAMBDA r :
                          ContainsCI(ExpectedFromTrace, r.artist_credit))
            IN  IF ok # <<>>
                THEN Accepted' = Some(ok[1])
                ELSE Accepted' = NoneVal /\ pc' \in {"release", "trackonly"}]_vars

\* The fourth query of the fallback returned the accepted candidate, whose
\* score is below the threshold
C17_Witness ==
    /\ Recorded
    /\ last_result.status = "MAPPED"
    /\ Len(ReleaseCalls) = 4
    /\ last_search.strategy = "release"
    /\ last_result.match[1].score < 90

(* C20: track normalization is idempotent: normalizing the result of       *)
(* normalize_track_name again gives the same name, for every track name,   *)
(* also one that ends in several annotations one after the other.          *)
C20_NormalizeTrackNameIdempotent ==
    Len(normal_forms) >= 2 => normal_forms[2] = normal_forms[1]

\* An argument of search_recordings that is neither None nor empty
NonEmpty(a) == a # NoneVal /\ a[1] # <<>>

\* The argument of the call a term of the query stands for
ArgOf(args, field) ==
    CASE field = "artist" -> args.artist
      [] field = "recording" -> args.recording
      [] field = "release" -> args.release

\* A step of SearchSpec in which search_recordings is called
IsSearchCall ==
    /\ gate_pc = "idle"
    /\ search_vars' # search_vars \/ sent_at' # sent_at

(* C21: search_recordings with artist, recording and release all empty or  *)
(* None returns [] with no request sent and the rate-limit clock as it     *)
(* was; with a non-empty field it sends exactly one request, whose query   *)
(* has a term for each non-empty field and for no other.                   *)
C21_SearchRecordingsEmptyArguments ==
    /\ [][IsSearchCall =>
            LET args == search_args'[1]
            IN  IF ~NonEmpty(args.artist) /\ ~NonEmpty(args.recording)
                   /\ ~NonEmpty(args.release)
                THEN /\ search_return' = Some([raised |-> FALSE, matches |-> <<>>])
                     /\ sent_query' = NoneVal
                     /\ sent_at' = sent_at
                     /\ _last_request_time' = _last_request_time
                     /\ now' = now
                ELSE /\ Len(sent_at') = Len(sent_at) + 1
                     /\ sent_query' # NoneVal
                     /\ \A f \in {"artist", "recording", "release"} :
                           NonEmpty(ArgOf(args, f)) <=>
                              (\E i \in 1..Len(sent_query'[1]) :
                                  sent_query'[1][i].field = f)
                     /\ \A i, j \in 1..Len(sent_query'[1]) :
                           sent_query'[1][i].field = sent_query'[1][j].field
                              => i = j]_vars
    /\ [][(gate_pc = "get") => sent_at' = sent_at]_vars

\* A call with an empty artist, an empty recording and no release has
\* returned after an earlier call had sent a request
C21_Witness ==
    /\ search_args = Some([artist |-> Some(<<>>), recording |-> Some(<<>>),
                            release |-> NoneVal])
    /\ search_return = Some([raised |-> FALSE, matches |-> <<>>])
    /\ sent_query = NoneVal
    /\ Len(sent_at) = 1

\* The string read back from an escaped one: a backslash gives the
\* character after it
RECURSIVE Unescape(_)
Unescape(s) ==
    IF s = <<>> THEN <<>>
    ELSE IF Head(s) = 92 /\ Len(s) >= 2
    THEN <<s[2]>> \o Unescape(Tail(Tail(s)))
    ELSE <<Head(s)>> \o Unescape(Tail(s))

\* Every special character of s stands right after a backslash that
\* escapes it, and a backslash escapes special characters only
RECURSIVE WellEscaped(_)
WellEscaped(s) ==
    IF s = <<>> THEN TRUE
    ELSE IF Head(s) = 92
    THEN Len(s) >= 2 /\ s[2] \in special /\ WellEscaped(Tail(Tail(s)))
    ELSE Head(s) \notin special /\ WellEscaped(Tail(s))

(* C22: every value placed in a query went through _escape: each special   *)
(* character of it has a backslash in front, every other character is as   *)
(* it was and where it was, and taking the inserted backslashes away gives *)
(* back the argument.                                                      *)
C22_EscapedValuesInQuery ==
    sent_query # NoneVal =>
        \A i \in 1..Len(sent_query[1]) :
            LET term == sent_query[1][i]
            IN  /\ WellEscaped(term.value)
                /\ Unescape(term.value) = ArgOf(search_args[1], term.field)[1]

\* A query whose artist value held a backslash and a quote
C22_Witness ==
    /\ sent_query # NoneVal
    /\ search_args[1].artist = Some(<<92, 34>>)
    /\ sent_query[1][1].value = <<92, 92, 92, 34>>
    /\ search_return # NoneVal

(* C23: iter_listens skips no listen: with a service that answers as       *)
(* documented, a run of the generator to its end has yielded every listen  *)
(* of the history once, newest first, also when listens of one second lie  *)
(* across a page boundary or fill more than a page.                        *)
C23_IterListensSkipsNothing ==
    (service = "faithful" /\ count = NoneVal /\ lpc = "done")
        => yielded = history

(* C24: iter_listens terminates whatever pages the service returns, and    *)
(* never yields two listens with the same (listened_at, recording_msid).   *)
C24_IterListensTerminatesWithoutDuplicates ==
    /\ [](\A i, j \in 1..Len(yielded) :
            (yielded[i].listened_at = yielded[j].listened_at
               /\ yielded[i].recording_msid = yielded[j].recording_msid)
            => i = j)
    /\ <>(lpc \in {"done", "stopped", "raised"})

\* The generator ended on a page that added nothing, after the service had
\* filled its pages in its own way
C24_Witness ==
    /\ service = "any"
    /\ count = NoneVal
    /\ lpc = "done"
    /\ page # <<>>
    /\ ~added
    /\ Len(yielded) >= 2
    /\ Len(yielded) < Len(history)

(* C26: fetch_listens(user, count) returns the first min(count, N) listens *)
(* iter_listens yields, for every count >= 0: never more than count, all   *)
(* of them when the generator ends first, and exactly count when it breaks *)
(* out of the loop.                                                        *)
C26_FetchListensReturnsCount ==
    (count # NoneVal /\ lpc \in {"done", "stopped"}) =>
        /\ fetched = yielded
        /\ Len(fetched) <= count[1]
        /\ lpc = "stopped" => Len(fetched) = count[1]

(* C25: _request sends at most 3 attempts, sends again only after a 429    *)
(* and a sleep, never retries another status, and always ends: it returns  *)
(* when the final answer is a success and raises when it is an error, the  *)
(* third 429 in a row included.                                            *)
C25_RequestRetriesOnly429 ==
    /\ [](response.attempts <= _MAX_RETRIES)
    /\ [](\A k \in 1..response.attempts - 1 : answers[k] = 429)
    /\ [](response.slept = IF response.at = "send" THEN response.attempts
                           ELSE response.attempts - 1)
    /\ [](response.at = "returned"
            => (response.status >= 200 /\ response.status <= 299))
    /\ [](response.at = "raised"
            => ~(response.status >= 200 /\ response.status <= 299))
    /\ [](response.at \in {"returned", "raised"}
            => /\ response.status = answers[response.attempts]
               /\ response.attempts = _request(answers, _MAX_RETRIES, 0).attempts
               /\ (response.at = "raised")
                      = _request(answers, _MAX_RETRIES, 0).raised)
    /\ <>(response.at \in {"returned", "raised"})

\* The third 429 in a row: raised after three attempts and two sleeps
C25_Witness ==
    /\ response.at = "raised"
    /\ response.attempts = _MAX_RETRIES
    /\ response.slept = 2
    /\ response.status = 429

(* C27: when the external translation fails during translate_artist, the   *)
(* exception reaches the caller, the cache in memory and the cache file    *)
(* stay as they were with no entry for the name, and a later               *)
(* translate_artist for the same name calls the external translator again. *)
C27_FailedTranslationLeavesNoTrace ==
    /\ [][(tpc = "waiting" /\ future.state = "exception"
             /\ tpc' \notin {"waiting", "down"})
          => /\ tpc' = "idle"
             /\ last_call' = [name |-> artist_name, value |-> NoneVal,
                              external |-> TRUE]
             /\ cache' = cache
             /\ cache_file' = cache_file
             /\ \A e \in cache' \cup _load_cache(cache_file') :
                    e[1] # artist_name[1]]_vars
    /\ [][(tpc = "idle" /\ last_call.name # NoneVal
             /\ last_call.value = NoneVal
             /\ last_call' # last_call)
          => last_call'.name # last_call.name]_vars

\* After a failed translation of a name, the next call for the same name
\* has put its request to the worker
C27_Witness ==
    /\ tpc = "waiting"
    /\ last_call.value = NoneVal
    /\ last_call.name = artist_name
    /\ last_call.name # NoneVal
    /\ _request_queue # <<>>
    /\ cache # {}

\* A text written, in part at least, in CJK ideographs, Kana, Hangul or
\* their compatibility and halfwidth forms
HasCJKText(s) ==
    \/ HasCJKScript(s)
    \/ \E i \in 1..Len(s) : \/ s[i] >= 63744 /\ s[i] <= 64255
                            \/ s[i] >= 65381 /\ s[i] <= 65439

\* The search_recording calls made for the i-th item
CallsOf(i) == SelectSeq(batch_calls, LAMBDA k : k.index = i)

(* C28: the batch search makes one or two searches per item, the second    *)
(* one with original_artist exactly when the first returned nothing and    *)
(* original_artist is non-empty and contains CJK; the output holds one     *)
(* entry per item, in the order of the input, with the item's fields and   *)
(* the results.                                                            *)
C28_BatchSearchRetriesOnce ==
    /\ Len(output) <= Len(items)
    /\ \A k \in 1..Len(batch_calls) : batch_calls[k].index \in 1..Len(output)
    /\ \A k \in 1..Len(batch_calls) - 1 :
           batch_calls[k].index <= batch_calls[k + 1].index
    /\ \A i \in 1..Len(output) :
          LET made == CallsOf(i)
              original == IF items[i].original_artist = NoneVal THEN <<>>
                          ELSE items[i].original_artist[1]
              retry == /\ made[1].results = <<>>
                       /\ original # <<>>
                       /\ HasCJKText(original)
          IN  /\ Len(made) \in {1, 2}
              /\ (Len(made) = 2) = retry
              /\ made[1].artist = IF items[i].artist = NoneVal THEN <<>>
                                  ELSE items[i].artist[1]
              /\ \A k \in 1..Len(made) : made[k].recording = items[i].track[1]
              /\ Len(made) = 2 => made[2].artist = original
              /\ output[i].artist = items[i].artist
              /\ output[i].track = items[i].track
              /\ output[i].original_artist = items[i].original_artist
              /\ Len(output[i].results) = Len(made[Len(made)].results)
              /\ \A k \in 1..Len(output[i].results) :
                     output[i].results[k].recording_mbid
                         = made[Len(made)].results[k].recording_mbid

\* Two items done: a retry with a Hangul name that found recordings, and
\* an item without original_artist searched once
C28_Witness ==
    /\ Len(output) = 2
    /\ Len(batch_calls) = 3
    /\ items[1].original_artist = Some(ArtistHangul)
    /\ batch_calls[2].artist = ArtistHangul
    /\ output[1].results # <<>>
    /\ items[2].original_artist = NoneVal

\* The passes of one kind that ended in a successful request
Succeeded(kind) ==
    {k \in 1..Len(exec_log) :
        /\ exec_log[k].kind = kind
        /\ exec_log[k].called
        /\ exec_log[k].status >= 200
        /\ exec_log[k].status <= 299}

(* C29: execute attempts every mapping once, in input order, before any    *)
(* deletion, then every deletion once, in order; an item that fails with   *)
(* an HTTP error or a missing key does not stop the later items; the       *)
(* counts reported are the numbers of items that succeeded.                *)
C29_ExecuteAttemptsEveryItem ==
    /\ Len(exec_log) <= Len(mappings) + Len(deletions)
    /\ \A k \in 1..Len(exec_log) :
          IF k <= Len(mappings)
          THEN /\ exec_log[k].kind = "mapping"
               /\ exec_log[k].index = k
               /\ exec_log[k].called
                     = (/\ mappings[k].recording_msid # NoneVal
                        /\ mappings[k].recording_mbid # NoneVal)
          ELSE /\ exec_log[k].kind = "deletion"
               /\ exec_log[k].index = k - Len(mappings)
               /\ exec_log[k].called
                     = (/\ deletions[k - Len(mappings)].listened_at # NoneVal
                        /\ deletions[k - Len(mappings)].recording_msid
                              # NoneVal)
    /\ mapped_ok = Cardinality(Succeeded("mapping"))
    /\ deleted_ok = Cardinality(Succeeded("deletion"))
    /\ epc = "done" => Len(exec_log) = Len(mappings) + Len(deletions)

\* A mapping answered 500 and a deletion without its key, each followed by
\* an item that succeeded
C29_Witness ==
    /\ epc = "done"
    /\ Len(mappings) = 2
    /\ Len(deletions) = 2
    /\ exec_log[1].called /\ exec_log[1].status = 500
    /\ ~exec_log[3].called
    /\ mapped_ok = 1
    /\ deleted_ok = 1

====
